---- MODULE Spec2Model ----
(***************************************************************************)
(* Model of the mind-map generator: the text-to-tree parser                *)
(* (src/src/lib/parser.ts), the session controller that owns the forest    *)
(* (src/src/components/MindMap/MindMapContainer.tsx), the 2D tree layout,  *)
(* the exported page (src/src/lib/exportUtils.ts) and the export buttons   *)
(* (src/src/components/MindMap/ExportControls.tsx).                        *)
(*                                                                         *)
(* A string is a sequence of characters; a character is a one-element      *)
(* token.  Characters outside ASCII are written by their code point.       *)
(* The forest is a store of node objects (heap) indexed by slot, plus the  *)
(* ordered list of root slots (nodes).  An object refers to its children   *)
(* and to its parent by slot.                                              *)
(***************************************************************************)
EXTENDS Integers, Sequences, FiniteSets, TLC

VARIABLES inputText, nodes, heap, nodeIdCounter, searchQuery, phase,
          exportControls

vars == <<inputText, nodes, heap, nodeIdCounter, searchQuery, phase,
          exportControls>>

---------------------------------------------------------------------------
(* Characters *)

SP == " "
TAB == "\t"
NL == "\n"
DASH == "-"
STAR == "*"
DOT == "."
BULLET == "U+2022"
TREEBAR == "U+2502"

\* JavaScript white space (String.prototype.trim, regex \s) among the
\* characters of the model.
WhiteSpace == {SP, TAB, NL}

\* The character class [•·▪▫‣⁃-] of the bullet regex.
BulletChars == {BULLET, DASH}

\* The character class [│├└] of the tree-connector regex.
TreeChars == {TREEBAR}

\* The character class \d.
Digits == {"1", "2"}

\* String.prototype.toLowerCase on one character.
LowerChar(c) == IF c = "A" THEN "a" ELSE IF c = "B" THEN "b" ELSE c

---------------------------------------------------------------------------
(* String primitives of the JavaScript runtime *)

Drop(s, n) == SubSeq(s, n + 1, Len(s))

RECURSIVE TrimStart(_)
TrimStart(s) ==
  IF s # <<>> /\ Head(s) \in WhiteSpace THEN TrimStart(Tail(s)) ELSE s

RECURSIVE TrimEnd(_)
TrimEnd(s) ==
  IF s # <<>> /\ s[Len(s)] \in WhiteSpace
  THEN TrimEnd(SubSeq(s, 1, Len(s) - 1))
  ELSE s

Trim(s) == TrimEnd(TrimStart(s))

ToLowerCase(s) == [i \in 1..Len(s) |-> LowerChar(s[i])]

\* String.prototype.includes
Includes(s, q) ==
  \E i \in 0..(Len(s) - Len(q)) : SubSeq(s, i + 1, i + Len(q)) = q

\* String.prototype.split('\n'): the pieces between the separators;
\* the empty string splits into one empty piece.
RECURSIVE SplitFrom(_, _)
SplitFrom(s, cur) ==
  IF s = <<>> THEN <<cur>>
  ELSE IF Head(s) = NL THEN <<cur>> \o SplitFrom(Tail(s), <<>>)
  ELSE SplitFrom(Tail(s), Append(cur, Head(s)))

Split(s) == SplitFrom(s, <<>>)

\* Number of leading characters of s that lie in the class cls (regex cls+).
RECURSIVE RunLength(_, _)
RunLength(s, cls) ==
  IF s # <<>> /\ Head(s) \in cls THEN 1 + RunLength(Tail(s), cls) ELSE 0

---------------------------------------------------------------------------
(* parser.ts: parseTextToLines *)

\* StripBullet with the bullet group repeated: /^([•·▪▫‣⁃-]\s*)+/
RECURSIVE StripBulletRepeated(_)
StripBulletRepeated(s) ==
  IF s # <<>> /\ Head(s) \in BulletChars
  THEN StripBulletRepeated(TrimStart(Tail(s)))
  ELSE s

\* .replace(/^[•·▪▫‣⁃-]\s*/, '')
StripBullet(s) ==
  IF s # <<>> /\ Head(s) \in BulletChars THEN TrimStart(Tail(s)) ELSE s

\* .replace(/^[│├└]\s*/, '')
StripTree(s) ==
  IF s # <<>> /\ Head(s) \in TreeChars THEN TrimStart(Tail(s)) ELSE s

\* .replace(/^[\d]+\.\s*/, '')
StripNumber(s) ==
  LET k == RunLength(s, Digits) IN
  IF k > 0 /\ Len(s) > k /\ s[k + 1] = DOT
  THEN TrimStart(Drop(s, k + 1))
  ELSE s

\* CleanContent that stops after the first replace that matched.
CleanContentOutermostOnly(trimmedLine) ==
  IF StripBullet(trimmedLine) # trimmedLine THEN Trim(StripBullet(trimmedLine))
  ELSE IF StripTree(trimmedLine) # trimmedLine THEN Trim(StripTree(trimmedLine))
  ELSE Trim(StripNumber(trimmedLine))

CleanContent(trimmedLine) ==
  Trim(StripNumber(StripTree(StripBullet(trimmedLine))))

\* LeadingSpaces that counts space characters only.
LeadingSpacesOnly(line) == RunLength(line, {SP})

LeadingSpaces(line) == Len(line) - Len(TrimStart(line))

\* LineLevel with one level for every leading character.
LineLevelUnhalved(line) == LeadingSpaces(line)

LineLevel(line) == LeadingSpaces(line) \div 2

\* ParseLine without the `if (cleanContent)` test.
ParseLineKeepEmpty(line, index) ==
  IF Trim(line) = <<>> THEN <<>>
  ELSE << [content |-> CleanContent(Trim(line)),
           level |-> LineLevel(line),
           lineNumber |-> index + 1] >>

\* ParseLine without the `if (!trimmedLine) return` test: a blank line
\* becomes a record.
ParseLineKeepBlank(line, index) ==
  IF Trim(line) # <<>> /\ CleanContent(Trim(line)) = <<>> THEN <<>>
  ELSE << [content |-> IF Trim(line) = <<>> THEN line ELSE CleanContent(Trim(line)),
           level |-> LineLevel(line),
           lineNumber |-> index + 1] >>

\* The body of the forEach callback: the records line number `index + 1`
\* contributes (none or one).
ParseLine(line, index) ==
  IF Trim(line) = <<>> THEN <<>>
  ELSE IF CleanContent(Trim(line)) = <<>> THEN <<>>
  ELSE << [content |-> CleanContent(Trim(line)),
           level |-> LineLevel(line),
           lineNumber |-> index + 1] >>

RECURSIVE ParseLinesFrom(_, _)
ParseLinesFrom(lines, index) ==
  IF index >= Len(lines) THEN <<>>
  ELSE ParseLine(lines[index + 1], index) \o ParseLinesFrom(lines, index + 1)

\* ParseTextToLines with no test at all: one record for every physical
\* line of a text that is not the empty string.
ParseTextToLinesUnfiltered(text) ==
  IF text = <<>> THEN <<>>
  ELSE [i \in 1..Len(Split(text)) |->
          [content |-> CleanContent(Trim(Split(text)[i])),
           level |-> LineLevel(Split(text)[i]),
           lineNumber |-> i]]

ParseTextToLines(text) ==
  IF Trim(text) = <<>> THEN <<>> ELSE ParseLinesFrom(Split(text), 0)

---------------------------------------------------------------------------
(* parser.ts: generateNodeId, buildMindMapTree, parseTextToMindMap *)

\* `node-${nodeIdCounter}` after the increment; the new counter value is
\* the number inside the id.
GenerateNodeId(counter) == <<"node-", counter + 1>>

\* NewNode that expands only the first node the process ever creates.
NewNodeExpandedOnce(counter, line) ==
  [id |-> GenerateNodeId(counter),
   label |-> line.content,
   level |-> line.level,
   children |-> <<>>,
   isExpanded |-> (counter = 0),
   parent |-> 0,
   orig |-> TRUE]

\* The node object created at the top of the forEach callback.  `parent`
\* is a slot, 0 for undefined.  `orig` tells that the object in the slot is
\* the one buildMindMapTree created (not a later spread copy).
NewNode(counter, line) ==
  [id |-> GenerateNodeId(counter),
   label |-> line.content,
   level |-> line.level,
   children |-> <<>>,
   isExpanded |-> TRUE,
   parent |-> 0,
   orig |-> TRUE]

\* PopStack with the loop replaced by a single conditional pop.
PopStackOnce(nodeStack, h, level) ==
  IF nodeStack # <<>> /\ h[nodeStack[Len(nodeStack)]].level >= level
  THEN SubSeq(nodeStack, 1, Len(nodeStack) - 1)
  ELSE nodeStack

\* PopStack that keeps an entry of the same level on the stack.
RECURSIVE PopStackDeeper(_, _, _)
PopStackDeeper(nodeStack, h, level) ==
  IF nodeStack # <<>> /\ h[nodeStack[Len(nodeStack)]].level > level
  THEN PopStackDeeper(SubSeq(nodeStack, 1, Len(nodeStack) - 1), h, level)
  ELSE nodeStack

\* while (nodeStack.length > 0 && top.level >= line.level) nodeStack.pop()
RECURSIVE PopStack(_, _, _)
PopStack(nodeStack, h, level) ==
  IF nodeStack # <<>> /\ h[nodeStack[Len(nodeStack)]].level >= level
  THEN PopStack(SubSeq(nodeStack, 1, Len(nodeStack) - 1), h, level)
  ELSE nodeStack

\* BuildStep that pushes every node to rootNodes, children included.
BuildStepAlsoRoot(st, line) ==
  LET slot == Len(st.heap) + 1
      node == NewNode(st.counter, line)
      stack == PopStack(st.nodeStack, st.heap, line.level)
  IN IF stack = <<>>
     THEN [heap |-> Append(st.heap, node),
           rootNodes |-> Append(st.rootNodes, slot),
           nodeStack |-> Append(stack, slot),
           counter |-> st.counter + 1]
     ELSE LET parent == stack[Len(stack)] IN
          [heap |-> Append([st.heap EXCEPT ![parent].children = Append(@, slot)],
                           [node EXCEPT !.parent = parent]),
           rootNodes |-> Append(st.rootNodes, slot),
           nodeStack |-> Append(stack, slot),
           counter |-> st.counter + 1]

\* BuildStep that gives a child the level of its parent plus one.
BuildStepClampLevel(st, line) ==
  LET slot == Len(st.heap) + 1
      node == NewNode(st.counter, line)
      stack == PopStack(st.nodeStack, st.heap, line.level)
  IN IF stack = <<>>
     THEN [heap |-> Append(st.heap, node),
           rootNodes |-> Append(st.rootNodes, slot),
           nodeStack |-> Append(stack, slot),
           counter |-> st.counter + 1]
     ELSE LET parent == stack[Len(stack)] IN
          [heap |-> Append([st.heap EXCEPT ![parent].children = Append(@, slot)],
                           [node EXCEPT !.parent = parent,
                                        !.level = st.heap[parent].level + 1]),
           rootNodes |-> st.rootNodes,
           nodeStack |-> Append(stack, slot),
           counter |-> st.counter + 1]

\* BuildStep that does not push a root onto nodeStack.
BuildStepRootNotOpen(st, line) ==
  LET slot == Len(st.heap) + 1
      node == NewNode(st.counter, line)
      stack == PopStack(st.nodeStack, st.heap, line.level)
  IN IF stack = <<>>
     THEN [heap |-> Append(st.heap, node),
           rootNodes |-> Append(st.rootNodes, slot),
           nodeStack |-> stack,
           counter |-> st.counter + 1]
     ELSE LET parent == stack[Len(stack)] IN
          [heap |-> Append([st.heap EXCEPT ![parent].children = Append(@, slot)],
                           [node EXCEPT !.parent = parent]),
           rootNodes |-> st.rootNodes,
           nodeStack |-> Append(stack, slot),
           counter |-> st.counter + 1]

\* One iteration of lines.forEach in buildMindMapTree.
BuildStep(st, line) ==
  LET slot == Len(st.heap) + 1
      node == NewNode(st.counter, line)
      stack == PopStack(st.nodeStack, st.heap, line.level)
  IN IF stack = <<>>
     THEN [heap |-> Append(st.heap, node),
           rootNodes |-> Append(st.rootNodes, slot),
           nodeStack |-> Append(stack, slot),
           counter |-> st.counter + 1]
     ELSE LET parent == stack[Len(stack)] IN
          [heap |-> Append([st.heap EXCEPT ![parent].children = Append(@, slot)],
                           [node EXCEPT !.parent = parent]),
           rootNodes |-> st.rootNodes,
           nodeStack |-> Append(stack, slot),
           counter |-> st.counter + 1]

RECURSIVE BuildLoop(_, _, _)
BuildLoop(st, lines, i) ==
  IF i > Len(lines) THEN st ELSE BuildLoop(BuildStep(st, lines[i]), lines, i + 1)

\* buildMindMapTree(lines) run with nodeIdCounter = counter: the root list,
\* the objects it created and the counter it leaves behind.
BuildMindMapTree(lines, counter) ==
  BuildLoop([heap |-> <<>>, rootNodes |-> <<>>, nodeStack |-> <<>>,
             counter |-> counter], lines, 1)

ParseTextToMindMap(text, counter) ==
  BuildMindMapTree(ParseTextToLines(text), counter)

---------------------------------------------------------------------------
(* parser.ts: flattenNodes, searchNodes *)

\* Traverse that descends only into expanded nodes, as the renderers do.
RECURSIVE TraverseExpandedOnly(_, _)
TraverseExpandedOnly(h, nodeList) ==
  IF nodeList = <<>> THEN <<>>
  ELSE LET n == Head(nodeList) IN
       <<n>>
       \o (IF h[n].isExpanded /\ Len(h[n].children) > 0
           THEN TraverseExpandedOnly(h, h[n].children) ELSE <<>>)
       \o TraverseExpandedOnly(h, Tail(nodeList))

\* Traverse that pushes a node after its children.
RECURSIVE TraversePostOrder(_, _)
TraversePostOrder(h, nodeList) ==
  IF nodeList = <<>> THEN <<>>
  ELSE LET n == Head(nodeList) IN
       (IF Len(h[n].children) > 0 THEN TraversePostOrder(h, h[n].children) ELSE <<>>)
       \o <<n>>
       \o TraversePostOrder(h, Tail(nodeList))

\* traverse(nodeList): the slots pushed to `flattened`, in push order.
RECURSIVE Traverse(_, _)
Traverse(h, nodeList) ==
  IF nodeList = <<>> THEN <<>>
  ELSE LET n == Head(nodeList) IN
       <<n>>
       \o (IF Len(h[n].children) > 0 THEN Traverse(h, h[n].children) ELSE <<>>)
       \o Traverse(h, Tail(nodeList))

FlattenNodes(h, nodeList) == Traverse(h, nodeList)

\* LabelMatches without the case folding.
LabelMatchesExact(label, query) == Includes(label, query)

\* The filter callback of searchNodes.
LabelMatches(label, query) == Includes(ToLowerCase(label), ToLowerCase(query))

\* allNodes.filter(...): the elements that match, in their order.
RECURSIVE FilterMatches(_, _, _)
FilterMatches(h, allNodes, query) ==
  IF allNodes = <<>> THEN <<>>
  ELSE (IF LabelMatches(h[Head(allNodes)].label, query)
        THEN <<Head(allNodes)>> ELSE <<>>)
       \o FilterMatches(h, Tail(allNodes), query)

\* SearchNodes without the early return for a blank query.
SearchNodesNoGuard(h, nodeList, query) ==
  FilterMatches(h, FlattenNodes(h, nodeList), query)

SearchNodes(h, nodeList, query) ==
  IF Trim(query) = <<>> THEN <<>>
  ELSE FilterMatches(h, FlattenNodes(h, nodeList), query)

---------------------------------------------------------------------------
(* MindMapContainer.tsx: the session *)

\* ToggleNode that also negates the flag of every node it descends through.
RECURSIVE ToggleNodeWithAncestors(_, _, _)
ToggleNodeWithAncestors(h, nodeList, nodeId) ==
  IF nodeList = <<>> THEN [heap |-> h, list |-> <<>>]
  ELSE LET n == Head(nodeList)
           first ==
             IF h[n].id = nodeId
             THEN [h EXCEPT ![n].isExpanded = ~@, ![n].orig = FALSE]
             ELSE IF Len(h[n].children) > 0
             THEN LET sub == ToggleNodeWithAncestors(h, h[n].children, nodeId) IN
                  [sub.heap EXCEPT ![n].children = sub.list, ![n].orig = FALSE,
                                   ![n].isExpanded = ~@]
             ELSE h
           rest == ToggleNodeWithAncestors(first, Tail(nodeList), nodeId)
       IN [heap |-> rest.heap, list |-> <<n>> \o rest.list]

\* ToggleNode that collapses the matching node instead of negating its flag.
RECURSIVE ToggleNodeCollapse(_, _, _)
ToggleNodeCollapse(h, nodeList, nodeId) ==
  IF nodeList = <<>> THEN [heap |-> h, list |-> <<>>]
  ELSE LET n == Head(nodeList)
           first ==
             IF h[n].id = nodeId
             THEN [h EXCEPT ![n].isExpanded = FALSE, ![n].orig = FALSE]
             ELSE IF Len(h[n].children) > 0
             THEN LET sub == ToggleNodeCollapse(h, h[n].children, nodeId) IN
                  [sub.heap EXCEPT ![n].children = sub.list, ![n].orig = FALSE]
             ELSE h
           rest == ToggleNodeCollapse(first, Tail(nodeList), nodeId)
       IN [heap |-> rest.heap, list |-> <<n>> \o rest.list]

\* ToggleNode whose map callback returns nothing for a leaf that does not
\* match, so the leaf is missing from the mapped list.
RECURSIVE ToggleNodeDropLeaf(_, _, _)
ToggleNodeDropLeaf(h, nodeList, nodeId) ==
  IF nodeList = <<>> THEN [heap |-> h, list |-> <<>>]
  ELSE LET n == Head(nodeList)
           first ==
             IF h[n].id = nodeId
             THEN [h EXCEPT ![n].isExpanded = ~@, ![n].orig = FALSE]
             ELSE IF Len(h[n].children) > 0
             THEN LET sub == ToggleNodeDropLeaf(h, h[n].children, nodeId) IN
                  [sub.heap EXCEPT ![n].children = sub.list, ![n].orig = FALSE]
             ELSE h
           rest == ToggleNodeDropLeaf(first, Tail(nodeList), nodeId)
           kept == IF h[n].id # nodeId /\ Len(h[n].children) = 0 THEN <<>> ELSE <<n>>
       IN [heap |-> rest.heap, list |-> kept \o rest.list]

\* toggleNode(nodeList) of handleToggleExpand: nodeList.map(...).  The
\* result is the mapped list and the store after the copies it made; a
\* spread copy takes the slot of the object it replaces in the forest.
RECURSIVE ToggleNode(_, _, _)
ToggleNode(h, nodeList, nodeId) ==
  IF nodeList = <<>> THEN [heap |-> h, list |-> <<>>]
  ELSE LET n == Head(nodeList)
           first ==
             IF h[n].id = nodeId
             THEN [h EXCEPT ![n].isExpanded = ~@, ![n].orig = FALSE]
             ELSE IF Len(h[n].children) > 0
             THEN LET sub == ToggleNode(h, h[n].children, nodeId) IN
                  [sub.heap EXCEPT ![n].children = sub.list, ![n].orig = FALSE]
             ELSE h
           rest == ToggleNode(first, Tail(nodeList), nodeId)
       IN [heap |-> rest.heap, list |-> <<n>> \o rest.list]

\* Stringify without the replacer: the parent key of a node that has a
\* parent is written (as the id of the parent).
RECURSIVE StringifyKeepParent(_, _)
StringifyKeepParent(h, nodeList) ==
  [i \in 1..Len(nodeList) |->
     LET n == h[nodeList[i]]
         own == [id |-> n.id, label |-> n.label, level |-> n.level,
                 children |-> StringifyKeepParent(h, n.children),
                 isExpanded |-> n.isExpanded]
     IN IF n.parent = 0 THEN own
        ELSE [k \in DOMAIN own \cup {"parent"} |->
                IF k = "parent" THEN h[n.parent].id ELSE own[k]]]

\* JSON.stringify(nodes, (key, value) => key === 'parent' ? undefined : value)
\* as the value the text denotes: a list of objects, an object being a
\* function from its keys.
RECURSIVE Stringify(_, _)
Stringify(h, nodeList) ==
  [i \in 1..Len(nodeList) |->
     LET n == h[nodeList[i]] IN
     [id |-> n.id, label |-> n.label, level |-> n.level,
      children |-> Stringify(h, n.children),
      isExpanded |-> n.isExpanded]]

\* exportToJSON(nodes): the data written to the file.
ExportToJSON(h, nodeList) == Stringify(h, nodeList)

\* searchResults (useMemo): the set of ids of the matching nodes.
SearchResults ==
  IF Trim(searchQuery) = <<>> THEN {}
  ELSE LET r == SearchNodes(heap, nodes, searchQuery) IN
       {heap[r[i]].id : i \in 1..Len(r)}

---------------------------------------------------------------------------
(* MindMapNodeComponent.tsx, MindMapVisualization.tsx: the 2D tree layout *)

\* The elements rendered for the nodes of nodeList, every one with the
\* prop isHighlighted={isHighlighted}: an element per node, followed, when
\* the node has children and is expanded, by the elements of its children,
\* which are given the isHighlighted prop of the node.
RECURSIVE RenderChildren(_, _, _)
RenderChildren(h, nodeList, isHighlighted) ==
  IF nodeList = <<>> THEN <<>>
  ELSE LET n == Head(nodeList) IN
       << [node |-> n, isHighlighted |-> isHighlighted] >>
       \o (IF Len(h[n].children) > 0 /\ h[n].isExpanded
           THEN RenderChildren(h, h[n].children, isHighlighted)
           ELSE <<>>)
       \o RenderChildren(h, Tail(nodeList), isHighlighted)

\* <MindMapNodeComponent node={n} isHighlighted={isHighlighted} />
MindMapNodeComponent(h, n, isHighlighted) ==
  RenderChildren(h, <<n>>, isHighlighted)

\* The tree layout of MindMapVisualization: nodes.map(node =>
\* <MindMapNodeComponent isHighlighted={highlightedNodes?.has(node.id)} />)
RECURSIVE MindMapVisualization(_, _, _)
MindMapVisualization(h, nodeList, highlightedNodes) ==
  IF nodeList = <<>> THEN <<>>
  ELSE MindMapNodeComponent(h, Head(nodeList),
                            h[Head(nodeList)].id \in highlightedNodes)
       \o MindMapVisualization(h, Tail(nodeList), highlightedNodes)

---------------------------------------------------------------------------
(* Bounds and input sets *)

\* Most physical lines of a text given to the parser.
MaxLines == 4

\* Deepest nesting level of a line; a level is two leading spaces.
MaxDepth == 2

\* Most physical lines of a text typed into the session.
MaxSessionLines == 3

\* The session stops parsing when the id counter would pass this value.
MaxNodeId == 4

Spaces(k) == [i \in 1..k |-> SP]

RECURSIVE Join(_)
Join(ls) ==
  IF ls = <<>> THEN <<>>
  ELSE IF Len(ls) = 1 THEN ls[1]
  ELSE ls[1] \o <<NL>> \o Join(Tail(ls))

TextsOf(lineSet, maxLines) ==
  {Join(ls) : ls \in UNION {[1..k -> lineSet] : k \in 0..maxLines}}

\* Undecorated lines at every depth, a line with an odd number of leading
\* spaces, a blank line, a tab-indented line.
StructLines ==
  {Spaces(2 * d) \o <<"a">> : d \in 0..MaxDepth}
  \cup {<<SP, SP, SP, "A", "b">>, <<>>, <<TAB, "a">>}

Decorations ==
  {<<>>, <<DASH, SP>>, <<DASH>>, <<BULLET, SP>>, <<STAR, SP>>, <<TREEBAR, SP>>,
   <<"1", DOT, SP>>, <<"1", "2", DOT>>, <<"1", DOT>>, <<"1">>,
   <<DASH, SP, "1", DOT, SP>>, <<"1", DOT, SP, DASH, SP>>,
   <<DASH, SP, DASH, SP>>, <<TREEBAR, DASH, SP>>, <<DASH, TREEBAR, "2", DOT, TAB>>}

DecoIndents == {<<>>, <<SP, SP>>, <<SP, SP, SP>>, <<TAB>>, <<TAB, TAB>>, <<SP, TAB>>}

DecoBodies == {<<>>, <<"a">>, <<"a", SP, "B", SP>>, <<"2", DOT, "1">>}

DecoLines == {i \o d \o b : i \in DecoIndents, d \in Decorations, b \in DecoBodies}

\* Decorated lines alone and below an undecorated first line.
DecoTexts ==
  DecoLines \cup {<<"a", NL>> \o l : l \in DecoLines}

Texts == TextsOf(StructLines, MaxLines) \cup DecoTexts

SessionLines ==
  {<<"a">>, <<SP, SP, "A", "b">>, <<SP, SP, SP, SP, "a">>}

SessionTexts == TextsOf(SessionLines, MaxSessionLines)

Queries == {<<>>, <<SP>>, <<"a">>, <<"B">>}

\* The records of each text a session can be given.
SessionRecords == [t \in SessionTexts |-> ParseTextToLines(t)]

\* The ids a click can carry: every id the counter can issue and one more.
NodeIds == {GenerateNodeId(c) : c \in 0..MaxNodeId}

---------------------------------------------------------------------------
(* The session: MindMapContainer *)

\* ParseEffect with the id counter restarted for every parse.
ParseEffectRestart(text, counter) ==
  IF Trim(text) # <<>>
  THEN ParseTextToMindMap(text, 0)
  ELSE [heap |-> <<>>, rootNodes |-> <<>>, nodeStack |-> <<>>, counter |-> counter]

\* ParseEffect that keeps the forest when the trimmed text did not change.
ParseEffectSkipSameTrim(text, counter) ==
  IF Trim(text) = Trim(inputText)
  THEN [heap |-> heap, rootNodes |-> nodes, nodeStack |-> <<>>, counter |-> counter]
  ELSE IF Trim(text) # <<>>
  THEN ParseTextToMindMap(text, counter)
  ELSE [heap |-> <<>>, rootNodes |-> <<>>, nodeStack |-> <<>>, counter |-> counter]

\* The body of the parse effect (useEffect on inputText).
ParseEffect(text, counter) ==
  IF Trim(text) # <<>>
  THEN ParseTextToMindMap(text, counter)
  ELSE [heap |-> <<>>, rootNodes |-> <<>>, nodeStack |-> <<>>, counter |-> counter]

\* ExportControls as mounted: useState(false) for isExporting; `rendered`
\* is the value of isExporting in the last committed render, which the
\* buttons' disabled attribute and the handlers' closures hold; `running`
\* lists the asynchronous exports that have started and not yet settled.
ExportControlsMounted(visualizationType) ==
  [isExporting |-> FALSE,
   rendered |-> FALSE,
   running |-> <<>>,
   visualizationType |-> visualizationType]

\* useState initial values, and the parse effect run on mount.
Init ==
  /\ inputText = <<>>
  /\ nodes = <<>>
  /\ heap = <<>>
  /\ nodeIdCounter = 0
  /\ searchQuery = <<>>
  /\ phase = "session"
  /\ exportControls = ExportControlsMounted("2d")

\* TextInput onChange -> setInputText(t), then the parse effect.
SetInputText(t) ==
  /\ phase = "session"
  /\ t # inputText
  /\ nodeIdCounter + Len(SessionRecords[t]) <= MaxNodeId
  /\ LET r == ParseEffect(t, nodeIdCounter) IN
       /\ inputText' = t
       /\ nodes' = r.rootNodes
       /\ heap' = r.heap
       /\ nodeIdCounter' = r.counter
  /\ UNCHANGED <<searchQuery, phase, exportControls>>

\* handleToggleExpand(nodeId): setNodes(prevNodes => toggleNode(prevNodes))
HandleToggleExpand(nodeId) ==
  /\ phase = "session"
  /\ LET r == ToggleNode(heap, nodes, nodeId) IN
       /\ nodes' = r.list
       /\ heap' = r.heap
  /\ UNCHANGED <<inputText, nodeIdCounter, searchQuery, phase, exportControls>>

\* Controls onSearchChange -> setSearchQuery(q)
SetSearchQuery(q) ==
  /\ phase = "session"
  /\ q # searchQuery
  /\ searchQuery' = q
  /\ UNCHANGED <<inputText, nodes, heap, nodeIdCounter, phase, exportControls>>

\* handleReset, then the parse effect on the emptied text.
HandleReset ==
  /\ phase = "session"
  /\ inputText' = <<>>
  /\ searchQuery' = <<>>
  /\ nodes' = <<>>
  /\ heap' = <<>>
  /\ UNCHANGED <<nodeIdCounter, phase, exportControls>>

Next ==
  \/ \E t \in SessionTexts : SetInputText(t)
  \/ \E nodeId \in NodeIds : HandleToggleExpand(nodeId)
  \/ \E q \in Queries : SetSearchQuery(q)
  \/ HandleReset

Spec == Init /\ [][Next]_vars

---------------------------------------------------------------------------
(* The parse pipeline as a function of its input text *)

InitParse ==
  /\ inputText \in Texts
  /\ nodes = <<>>
  /\ heap = <<>>
  /\ nodeIdCounter = 0
  /\ searchQuery = <<>>
  /\ phase = "text"
  /\ exportControls = ExportControlsMounted("2d")

\* parseTextToMindMap(inputText)
ApplyParse ==
  /\ phase = "text"
  /\ LET r == ParseTextToMindMap(inputText, nodeIdCounter) IN
       /\ nodes' = r.rootNodes
       /\ heap' = r.heap
       /\ nodeIdCounter' = r.counter
  /\ phase' = "parsed"
  /\ UNCHANGED <<inputText, searchQuery, exportControls>>

NextParse == ApplyParse

SpecParse == InitParse /\ [][NextParse]_vars

---------------------------------------------------------------------------
(* Vocabulary of the properties *)

Slots == 1..Len(heap)

Range(seq) == {seq[i] : i \in 1..Len(seq)}

Records == ParseTextToLines(inputText)

\* The slots in pre-order.
Flat == FlattenNodes(heap, nodes)

IdsOf(h) == {h[s].id : s \in 1..Len(h)}

\* The slots whose children list contains slot c.
Owners(c) == {s \in Slots : c \in Range(heap[s].children)}

\* The preceding records whose depth is strictly smaller than record i's.
Shallower(i) == {j \in 1..(i - 1) : Records[j].level < Records[i].level}

Greatest(S) == CHOOSE m \in S : \A x \in S : x <= m

\* What a node shows apart from object identity.
View(h) ==
  [s \in 1..Len(h) |->
     [id |-> h[s].id, label |-> h[s].label, level |-> h[s].level,
      children |-> h[s].children, isExpanded |-> h[s].isExpanded]]

---------------------------------------------------------------------------
(* Properties of the parse pipeline (SpecParse) *)

\* C1: the node of record i is a child of the node of the nearest preceding
\* record with a strictly smaller depth, and a root exactly when no
\* preceding record has a strictly smaller depth.
C1_NearestShallowerParent ==
  phase = "parsed" =>
    /\ Len(heap) = Len(Records)
    /\ \A i \in Slots :
         /\ heap[i].label = Records[i].content
         /\ IF Shallower(i) = {}
            THEN /\ i \in Range(nodes)
                 /\ Owners(i) = {}
                 /\ heap[i].parent = 0
            ELSE /\ i \notin Range(nodes)
                 /\ Owners(i) = {Greatest(Shallower(i))}
                 /\ heap[i].parent = Greatest(Shallower(i))

\* A parse in which a node's parent is not the record just before it and a
\* later record is a root.
C1_Witness ==
  /\ phase = "parsed"
  /\ \E i \in Slots : heap[i].parent # 0 /\ heap[i].parent < i - 1
  /\ \E i \in Slots : i > 1 /\ i \in Range(nodes)

\* C2: the labels of the flattened forest, read in order, are the cleaned
\* non-empty line contents in original line order.
C2_FlattenRoundTrip ==
  phase = "parsed" =>
    /\ Len(Flat) = Len(Records)
    /\ \A i \in 1..Len(Flat) : heap[Flat[i]].label = Records[i].content

\* A parse of a text with a dropped line, a node with a child and a later
\* sibling, and two different labels.
C2_Witness ==
  /\ phase = "parsed"
  /\ Len(Records) < Len(Split(inputText))
  /\ Len(nodes) >= 2
  /\ heap[nodes[1]].children # <<>>
  /\ \E s, t \in Slots : heap[s].label # heap[t].label

\* C4: every root of a parsed forest has level 0.
C4_RootsHaveLevelZero ==
  phase = "parsed" => \A i \in 1..Len(nodes) : heap[nodes[i]].level = 0

\* C6: every node has a non-empty label; there is one node per line whose
\* content is non-empty after trimming, decoration stripping and trimming
\* again, and none for any other line.
C6_LabelsNonEmpty ==
  phase = "parsed" =>
    /\ \A s \in Slots : heap[s].label # <<>>
    /\ LET lines == Split(inputText) IN
       Len(heap) = Cardinality({i \in 1..Len(lines) :
                                  /\ Trim(lines[i]) # <<>>
                                  /\ CleanContent(Trim(lines[i])) # <<>>})

\* A parse that made a node and dropped a line that is not blank but is
\* empty once its decoration is stripped.
C6_Witness ==
  /\ phase = "parsed"
  /\ Len(heap) >= 1
  /\ LET lines == Split(inputText) IN
     \E i \in 1..Len(lines) :
        Trim(lines[i]) # <<>> /\ CleanContent(Trim(lines[i])) = <<>>

---------------------------------------------------------------------------
(* Properties of the session (Spec) *)

\* C3: every node in a children list has a level strictly greater than the
\* level of the node that owns the list, after parse and after any toggles.
C3_ChildDeeperThanParent ==
  \A s \in Slots : \A i \in 1..Len(heap[s].children) :
     heap[heap[s].children[i]].level > heap[s].level

\* A forest, after a toggle, with a child more than one level below its
\* parent.
C3_Witness ==
  /\ \E s \in Slots : ~heap[s].isExpanded
  /\ \E s \in Slots : \E i \in 1..Len(heap[s].children) :
        heap[heap[s].children[i]].level > heap[s].level + 1

\* The ids generateNodeId has returned once the counter stands at counter.
Issued(counter) == {GenerateNodeId(c) : c \in 0..(counter - 1)}

\* C5: no id is assigned to two created nodes.  In every step the ids of
\* the forest stay pairwise different and were all issued by the counter;
\* a step either keeps the id of every node, or replaces the forest by
\* nodes whose ids had never been issued before the step.
C5_IdsNeverReused ==
  [][/\ \A s, t \in 1..Len(heap') : s # t => heap'[s].id # heap'[t].id
     /\ IdsOf(heap') \subseteq Issued(nodeIdCounter')
     /\ nodeIdCounter' >= nodeIdCounter
     /\ \/ /\ Len(heap') = Len(heap)
           /\ \A s \in Slots : heap'[s].id = heap[s].id
        \/ IdsOf(heap') \cap Issued(nodeIdCounter) = {}]_vars

\* A forest of a later parse (ids were issued before its first), after a
\* toggle.
C5_Witness ==
  /\ Len(heap) >= 2
  /\ GenerateNodeId(0) \notin IdsOf(heap)
  /\ \E s \in Slots : ~heap[s].isExpanded

\* C7: handleToggleExpand with an id of the forest negates isExpanded of the
\* node with that id and changes nothing else: every other flag, every id,
\* label, level and children list, and the root list stay as they were.
C7_ToggleFrame ==
  [][\A nodeId \in NodeIds :
       (HandleToggleExpand(nodeId) /\ nodeId \in IdsOf(heap)) =>
         /\ nodes' = nodes
         /\ Len(heap') = Len(heap)
         /\ \A s \in Slots :
              /\ heap'[s].id = heap[s].id
              /\ heap'[s].label = heap[s].label
              /\ heap'[s].level = heap[s].level
              /\ heap'[s].children = heap[s].children
              /\ heap'[s].isExpanded =
                   (IF heap[s].id = nodeId THEN ~heap[s].isExpanded
                                           ELSE heap[s].isExpanded)]_vars

\* A collapsed node below the root level, with an expanded parent and an
\* expanded child of its own.
C7_Witness ==
  \E s \in Slots :
     /\ ~heap[s].isExpanded
     /\ heap[s].parent # 0 /\ heap[heap[s].parent].isExpanded
     /\ heap[s].children # <<>> /\ heap[heap[s].children[1]].isExpanded

\* C8: toggling the same id twice gives back the forest: same roots, and
\* every node with its original id, label, level, children and isExpanded.
C8_ToggleTwice ==
  \A nodeId \in NodeIds :
     LET once == ToggleNode(heap, nodes, nodeId)
         twice == ToggleNode(once.heap, once.list, nodeId)
     IN /\ twice.list = nodes
        /\ View(twice.heap) = View(heap)
        /\ (nodeId \in IdsOf(heap) => View(once.heap) # View(heap))

\* A forest in which toggles have left a node with children collapsed and
\* another node expanded.
C8_Witness ==
  /\ \E s \in Slots : ~heap[s].isExpanded /\ heap[s].children # <<>>
  /\ \E s \in Slots : heap[s].isExpanded /\ ~heap[s].orig

\* C9: handleToggleExpand with an id that is not in the forest leaves the
\* forest as it was: same roots, same nodes, same children lists, same
\* isExpanded on every node.
C9_UnknownIdNoOp ==
  [][\A nodeId \in NodeIds :
       (HandleToggleExpand(nodeId) /\ nodeId \notin IdsOf(heap)) =>
         /\ nodes' = nodes
         /\ View(heap') = View(heap)]_vars

\* A forest of several nodes, every node still expanded, whose root has been
\* rebuilt by the handler.
C9_Witness ==
  /\ Len(heap) >= 3
  /\ \A s \in Slots : heap[s].isExpanded
  /\ \E s \in Slots : ~heap[s].orig /\ heap[s].children # <<>>

\* Label contains query as a substring when letter case is ignored.
ContainsIgnoringCase(label, query) ==
  \E off \in 0..(Len(label) - Len(query)) :
     \A j \in 1..Len(query) : LowerChar(label[off + j]) = LowerChar(query[j])

\* C10: for a query that is not blank, searchNodes returns exactly the nodes
\* whose label contains the query ignoring case, in pre-order, every one of
\* them, whatever the isExpanded values.
C10_SearchExact ==
  Trim(searchQuery) # <<>> =>
    LET found == SearchNodes(heap, nodes, searchQuery)
        Matches(s) == ContainsIgnoringCase(heap[s].label, searchQuery)
        expanded == [s \in Slots |-> [heap[s] EXCEPT !.isExpanded = TRUE]]
    IN /\ found = SelectSeq(Flat, Matches)
       /\ \A s \in Slots : Matches(s) => s \in Range(found)
       /\ \A i, j \in 1..Len(found) : i < j => found[i] # found[j]
       /\ found = SearchNodes(expanded, nodes, searchQuery)
       /\ SearchResults = {heap[s].id : s \in {t \in Slots : Matches(t)}}

\* A search that finds a node under a collapsed parent through a difference
\* in letter case and leaves another node out.
C10_Witness ==
  /\ Trim(searchQuery) # <<>>
  /\ \E s \in Slots :
        /\ heap[s].id \in SearchResults
        /\ ~Includes(heap[s].label, searchQuery)
        /\ heap[s].parent # 0 /\ ~heap[heap[s].parent].isExpanded
  /\ \E s \in Slots : heap[s].id \notin SearchResults

\* C11: for an empty or whitespace-only query searchNodes returns nothing,
\* whatever the forest; it never returns every node.
C11_BlankQueryFindsNothing ==
  \A q \in Queries :
     Trim(q) = <<>> =>
       /\ SearchNodes(heap, nodes, q) = <<>>
       /\ (q = searchQuery => SearchResults = {})

\* A forest with nodes searched with a whitespace-only query.
C11_Witness ==
  /\ Len(heap) >= 2
  /\ searchQuery # <<>>
  /\ Trim(searchQuery) = <<>>

\* The slots reached from the slots of S through at most k children links.
RECURSIVE DescendUpTo(_, _, _)
DescendUpTo(h, S, k) ==
  IF k = 0 THEN S
  ELSE DescendUpTo(h, S \cup UNION {Range(h[s].children) : s \in S}, k - 1)

\* The proper descendants of slot s.
Descendants(h, s) == DescendUpTo(h, Range(h[s].children), Len(h))

\* Position of slot s in the sequence seq.
PosIn(seq, s) == CHOOSE i \in 1..Len(seq) : seq[i] = s

\* The store with isExpanded set to b on every node.
WithAllExpanded(h, b) == [s \in 1..Len(h) |-> [h[s] EXCEPT !.isExpanded = b]]

\* C12: flattenNodes lists every node exactly once, roots in forest order,
\* a node directly before the block of its descendants, children in sibling
\* order, and the list does not depend on any isExpanded value.
C12_FlattenPreOrder ==
  /\ Len(Flat) = Len(heap)
  /\ Range(Flat) = Slots
  /\ \A i, j \in 1..Len(nodes) :
        i < j => PosIn(Flat, nodes[i]) < PosIn(Flat, nodes[j])
  /\ \A s \in Slots :
        /\ {Flat[i] : i \in (PosIn(Flat, s) + 1)..
                            (PosIn(Flat, s) + Cardinality(Descendants(heap, s)))}
             = Descendants(heap, s)
        /\ \A i, j \in 1..Len(heap[s].children) :
              i < j => PosIn(Flat, heap[s].children[i])
                         < PosIn(Flat, heap[s].children[j])
  /\ FlattenNodes(WithAllExpanded(heap, FALSE), nodes) = Flat
  /\ FlattenNodes(WithAllExpanded(heap, TRUE), nodes) = Flat

\* A forest with a collapsed root that has a child and a grandchild.
C12_Witness ==
  /\ Len(nodes) >= 1
  /\ ~heap[nodes[1]].isExpanded
  /\ \E c \in Range(heap[nodes[1]].children) : heap[c].children # <<>>

---------------------------------------------------------------------------
(* exportUtils.ts: the exported interactive page *)

\* JSON.stringify(nodes, replacer) read back as the page's mindMapData:
\* the same nodes as new objects without the parent key.
NodesJson(h) ==
  [s \in 1..Len(h) |-> [h[s] EXCEPT !.parent = 0, !.orig = FALSE]]

\* updateNodeExpansion(nodes, nodeId, null): negates the flag of the first
\* node in depth-first order with that id, in place, and tells whether it
\* found one.
RECURSIVE UpdateNodeExpansion(_, _, _)
UpdateNodeExpansion(h, nodeList, nodeId) ==
  IF nodeList = <<>> THEN [heap |-> h, found |-> FALSE]
  ELSE LET n == Head(nodeList) IN
       IF h[n].id = nodeId
       THEN [heap |-> [h EXCEPT ![n].isExpanded = ~@], found |-> TRUE]
       ELSE LET sub == UpdateNodeExpansion(h, h[n].children, nodeId) IN
            IF sub.found THEN sub
            ELSE UpdateNodeExpansion(h, Tail(nodeList), nodeId)

\* UpdateNodes that writes the flag of every node, leaves included.
RECURSIVE UpdateNodesLeavesToo(_, _, _)
UpdateNodesLeavesToo(h, nodeList, expanded) ==
  IF nodeList = <<>> THEN h
  ELSE LET n == Head(nodeList)
           first == UpdateNodesLeavesToo([h EXCEPT ![n].isExpanded = expanded],
                                         h[n].children, expanded)
       IN UpdateNodesLeavesToo(first, Tail(nodeList), expanded)

\* updateNodes(nodes) inside setAllExpansion(expanded).
RECURSIVE UpdateNodes(_, _, _)
UpdateNodes(h, nodeList, expanded) ==
  IF nodeList = <<>> THEN h
  ELSE LET n == Head(nodeList)
           first ==
             IF Len(h[n].children) > 0
             THEN UpdateNodes([h EXCEPT ![n].isExpanded = expanded],
                              h[n].children, expanded)
             ELSE h
       IN UpdateNodes(first, Tail(nodeList), expanded)

SetAllExpansion(h, nodeList, expanded) == UpdateNodes(h, nodeList, expanded)

\* The page as exported right after a parse of the text.
InitViewer ==
  /\ inputText \in SessionTexts
  /\ LET r == ParseEffect(inputText, 0) IN
       /\ nodes = r.rootNodes
       /\ heap = NodesJson(r.heap)
  /\ nodeIdCounter = 0
  /\ searchQuery = <<>>
  /\ phase = "viewer"
  /\ exportControls = ExportControlsMounted("2d")

\* toggleNode(nodeId) of the page.
ViewerToggleNode(nodeId) ==
  /\ phase = "viewer"
  /\ heap' = UpdateNodeExpansion(heap, nodes, nodeId).heap
  /\ UNCHANGED <<inputText, nodes, nodeIdCounter, searchQuery, phase,
               exportControls>>

\* expandAll()
ExpandAll ==
  /\ phase = "viewer"
  /\ heap' = SetAllExpansion(heap, nodes, TRUE)
  /\ UNCHANGED <<inputText, nodes, nodeIdCounter, searchQuery, phase,
               exportControls>>

\* collapseAll()
CollapseAll ==
  /\ phase = "viewer"
  /\ heap' = SetAllExpansion(heap, nodes, FALSE)
  /\ UNCHANGED <<inputText, nodes, nodeIdCounter, searchQuery, phase,
               exportControls>>

NextViewer ==
  \/ \E nodeId \in NodeIds : ViewerToggleNode(nodeId)
  \/ ExpandAll
  \/ CollapseAll

SpecViewer == InitViewer /\ [][NextViewer]_vars

\* C13: setAllExpansion(expanded) sets isExpanded = expanded on every node
\* that has a child, at every depth, leaves the flag of every leaf and every
\* other field as it was, and changes nothing when applied again with the
\* same value.
C13_SetAllExpansionFrame ==
  [][\A expanded \in BOOLEAN :
       ((expanded /\ ExpandAll) \/ (~expanded /\ CollapseAll)) =>
         /\ nodes' = nodes
         /\ Len(heap') = Len(heap)
         /\ \A s \in Slots :
              /\ heap'[s].id = heap[s].id
              /\ heap'[s].label = heap[s].label
              /\ heap'[s].level = heap[s].level
              /\ heap'[s].children = heap[s].children
              /\ heap'[s].parent = heap[s].parent
              /\ heap'[s].isExpanded =
                   (IF heap[s].children # <<>> THEN expanded
                                               ELSE heap[s].isExpanded)
         /\ SetAllExpansion(heap', nodes', expanded) = heap']_vars

\* After collapseAll on a three-level tree: both nodes with a child are
\* collapsed, the leaf is still expanded.
C13_Witness ==
  /\ phase = "viewer"
  /\ \E s \in Slots :
        /\ heap[s].children # <<>> /\ ~heap[s].isExpanded
        /\ \E c \in Range(heap[s].children) :
              /\ heap[c].children # <<>> /\ ~heap[c].isExpanded
              /\ \E l \in Range(heap[c].children) :
                    heap[l].children = <<>> /\ heap[l].isExpanded

---------------------------------------------------------------------------
(* Further properties of the session (Spec) *)

\* Shape, labels and levels of a forest: what is left of it when ids,
\* isExpanded and object identity are ignored.
ShapeOf(h, roots) ==
  [roots |-> roots,
   nodes |-> [s \in 1..Len(h) |->
                [label |-> h[s].label, level |-> h[s].level,
                 children |-> h[s].children]]]

ParsedShape(text) ==
  LET r == ParseTextToMindMap(text, 0) IN ShapeOf(r.heap, r.rootNodes)

\* C14: after every step of the session the forest has the shape, labels
\* and levels of parse(inputText); a step that changes the input text leaves
\* every node expanded and newly built, whatever was toggled before.
C14_ForestRebuiltOnTextChange ==
  [][/\ ShapeOf(heap', nodes') = ParsedShape(inputText')
     /\ inputText' # inputText =>
          \A s \in 1..Len(heap') : heap'[s].isExpanded /\ heap'[s].orig]_vars

\* The forest of a later text, with several nodes, as the parse effect
\* leaves it.
C14_Witness ==
  /\ phase = "session"
  /\ nodeIdCounter > Len(heap)
  /\ Len(heap) >= 2
  /\ \A s \in Slots : heap[s].isExpanded /\ heap[s].orig

\* The places that hold slot s: <<0, i>> for position i of the root list,
\* <<p, i>> for position i of the children list of slot p.
PlacesOf(h, roots, s) ==
  {<<0, i>> : i \in {j \in 1..Len(roots) : roots[j] = s}}
  \cup UNION {{<<p, i>> : i \in {j \in 1..Len(h[p].children) : h[p].children[j] = s}}
              : p \in 1..Len(h)}

\* Every node is in exactly one place (the root list or one children list,
\* once) and no node is among its own descendants.
WellOwned(h, roots) ==
  \A s \in 1..Len(h) :
     /\ Cardinality(PlacesOf(h, roots, s)) = 1
     /\ s \notin Descendants(h, s)

\* C15: after parse and after any toggles, and after setAllExpansion with
\* either value, the forest is acyclic and every node is owned exactly once.
C15_AcyclicSingleOwner ==
  /\ WellOwned(heap, nodes)
  /\ \A expanded \in BOOLEAN :
        WellOwned(SetAllExpansion(heap, nodes, expanded), nodes)

\* A three-level tree after a toggle.
C15_Witness ==
  /\ phase = "session"
  /\ \E s \in Slots : ~heap[s].isExpanded
  /\ \E s \in Slots : heap[s].parent # 0 /\ heap[s].children # <<>>

---------------------------------------------------------------------------
(* Properties of the line classifier (SpecParse) *)

\* The physical line record i was made from, and that line trimmed.
PhysicalLine(i) == Split(inputText)[Records[i].lineNumber]

TrimmedLine(i) == Trim(PhysicalLine(i))

\* The leading characters of a line up to its first character that is
\* neither a space nor a tab.
Indentation(line) == SubSeq(line, 1, RunLength(line, {SP, TAB}))

\* C16 as stated: the depth of every record is floor(k / 2) for k the number
\* of leading space characters of its line, nothing but spaces counted.
C16_DepthFromSpacesOnly ==
  phase = "parsed" =>
    \A i \in 1..Len(Records) :
       Records[i].level = RunLength(PhysicalLine(i), {SP}) \div 2

\* C16 amended: the depth of every record, and the level of its node, is
\* floor(k / 2) for k the number of leading white-space characters of its
\* line, a tab counting like a space.
C16_DepthFromLeadingWhiteSpace ==
  phase = "parsed" =>
    \A i \in 1..Len(Records) :
       /\ Records[i].level = Len(Indentation(PhysicalLine(i))) \div 2
       /\ heap[i].level = Records[i].level

\* A parse of a line indented by a space and a tab, which gets depth 1.
C16_Witness ==
  /\ phase = "parsed"
  /\ \E i \in 1..Len(Records) :
        /\ Indentation(PhysicalLine(i)) = <<SP, TAB>>
        /\ heap[i].level = 1

\* The line is indented, and by tab characters only.
TabIndented(line) ==
  /\ Indentation(line) # <<>>
  /\ \A j \in 1..Len(Indentation(line)) : line[j] = TAB

\* C17 as stated: a line indented only with tabs gets depth 0.
C17_TabIndentDepthZero ==
  phase = "parsed" =>
    \A i \in 1..Len(Records) :
       TabIndented(PhysicalLine(i)) => heap[i].level = 0

\* C17 amended: a line indented only with n tabs gets depth floor(n / 2).
C17_TabIndentHalved ==
  phase = "parsed" =>
    \A i \in 1..Len(Records) :
       TabIndented(PhysicalLine(i)) =>
         heap[i].level = RunLength(PhysicalLine(i), {TAB}) \div 2

\* A parse of a line indented by two tabs, which gets depth 1.
C17_Witness ==
  /\ phase = "parsed"
  /\ \E i \in 1..Len(Records) :
        /\ TabIndented(PhysicalLine(i))
        /\ RunLength(PhysicalLine(i), {TAB}) = 2
        /\ heap[i].level = 1

\* The decoration class a trimmed line starts with: 1 bullet glyph, 2 tree
\* connector, 3 digits followed by a dot, 0 none.
ClassOf(t) ==
  IF t = <<>> THEN 0
  ELSE IF Head(t) \in BulletChars THEN 1
  ELSE IF Head(t) \in TreeChars THEN 2
  ELSE IF /\ RunLength(t, Digits) > 0
          /\ Len(t) > RunLength(t, Digits)
          /\ t[RunLength(t, Digits) + 1] = DOT THEN 3
  ELSE 0

\* The line without the decoration it starts with and the white space
\* after it.
StripFirst(t) ==
  IF ClassOf(t) = 0 THEN t
  ELSE IF ClassOf(t) = 3 THEN TrimStart(Drop(t, RunLength(t, Digits) + 1))
  ELSE TrimStart(Tail(t))

IsSuffixOf(u, t) == Len(u) <= Len(t) /\ Drop(t, Len(t) - Len(u)) = u

\* The trimmed line starts with two decorations.
TwoDecorations(t) == ClassOf(t) # 0 /\ ClassOf(StripFirst(t)) # 0

\* C18 as stated: of several leading decorations only the outermost is
\* removed.
C18_OnlyOutermostRemoved ==
  phase = "parsed" =>
    \A i \in 1..Len(Records) :
       TwoDecorations(TrimmedLine(i)) =>
         heap[i].label = Trim(StripFirst(TrimmedLine(i)))

\* C18 amended: of two leading decorations the second is removed as well
\* when its class comes later in the order bullet, tree connector,
\* numbering ("- 1. Item" yields "Item"); only the outermost is removed when
\* the second is of the same or an earlier class.
C18_LaterClassRemovedToo ==
  phase = "parsed" =>
    \A i \in 1..Len(Records) :
       LET t == TrimmedLine(i) IN
       TwoDecorations(t) =>
         IF ClassOf(StripFirst(t)) > ClassOf(t)
         THEN IsSuffixOf(heap[i].label, StripFirst(StripFirst(t)))
         ELSE heap[i].label = Trim(StripFirst(t))

\* A parse of a line with a bullet and then a numbering marker, whose label
\* has lost both.
C18_Witness ==
  /\ phase = "parsed"
  /\ \E i \in 1..Len(Records) :
        /\ ClassOf(TrimmedLine(i)) = 1
        /\ ClassOf(StripFirst(TrimmedLine(i))) = 3
        /\ heap[i].label = StripFirst(StripFirst(TrimmedLine(i)))
        /\ heap[i].label # TrimmedLine(i)

\* Decorations removed from the front for as long as each is of a later
\* class than the one removed before it.
RECURSIVE StripAscending(_, _)
StripAscending(t, last) ==
  IF ClassOf(t) > last THEN StripAscending(StripFirst(t), ClassOf(t)) ELSE t

\* C19: decorations are stripped in the order bullet, tree connector,
\* numbering, at most one of each and each at the start of what remains;
\* none is stripped twice, and one of an earlier class that follows one of a
\* later class stays in the label.
C19_FixedOrderOneEach ==
  phase = "parsed" =>
    \A i \in 1..Len(Records) :
       /\ heap[i].label = Trim(StripAscending(TrimmedLine(i), 0))
       /\ IsSuffixOf(heap[i].label, TrimmedLine(i))

\* A parse of a line with a numbering marker and then a bullet, whose label
\* keeps the bullet.
C19_Witness ==
  /\ phase = "parsed"
  /\ \E i \in 1..Len(Records) :
        /\ ClassOf(TrimmedLine(i)) = 3
        /\ ClassOf(heap[i].label) = 1
        /\ heap[i].label = StripFirst(TrimmedLine(i))

\* The bullets named by the Formatting Tips of the input panel.
AdvertisedBullets == {BULLET, DASH, STAR}

\* C20: a bullet character the input panel advertises, at the start of a
\* line, is removed from the label.
C20_AdvertisedBulletsRemoved ==
  phase = "parsed" =>
    \A i \in 1..Len(Records) :
       Head(TrimmedLine(i)) \in AdvertisedBullets =>
         IsSuffixOf(heap[i].label, Tail(TrimmedLine(i)))

---------------------------------------------------------------------------
(* Relational properties of the parse pipeline (SpecParse) *)

\* Empty and whitespace-only lines.
BlankLines == {<<>>, <<SP, TAB>>}

IsBlank(line) == \A j \in 1..Len(line) : line[j] \in WhiteSpace

NotBlank(line) == ~IsBlank(line)

\* The text without its blank lines.
DeleteBlankLines(text) == Join(SelectSeq(Split(text), NotBlank))

\* The text with line b put after its first k lines.
InsertLine(text, k, b) ==
  LET ls == Split(text) IN
  Join(SubSeq(ls, 1, k) \o <<b>> \o SubSeq(ls, k + 1, Len(ls)))

\* Content and depth of the records, line numbers left out.
Unnumbered(recs) ==
  [i \in 1..Len(recs) |-> [content |-> recs[i].content, level |-> recs[i].level]]

\* C21: the parsed forest has the shape, labels, levels and sibling order of
\* the parse of the text with every blank line deleted, and of the parse of
\* the text with one more blank line put in anywhere; the records differ in
\* their line numbers only.
C21_BlankLinesIgnored ==
  phase = "parsed" =>
    /\ ShapeOf(heap, nodes) = ParsedShape(DeleteBlankLines(inputText))
    /\ Unnumbered(Records) = Unnumbered(ParseTextToLines(DeleteBlankLines(inputText)))
    /\ \A b \in BlankLines : \A k \in 0..Len(Split(inputText)) :
          /\ ParsedShape(InsertLine(inputText, k, b)) = ShapeOf(heap, nodes)
          /\ Unnumbered(ParseTextToLines(InsertLine(inputText, k, b)))
               = Unnumbered(Records)

\* A parse of a text with a blank line between a node and its child, the
\* child's record carrying a line number beyond its position.
C21_Witness ==
  /\ phase = "parsed"
  /\ \E i \in 2..Len(Records) :
        /\ heap[i].parent = i - 1
        /\ Records[i].lineNumber - Records[i - 1].lineNumber = 2
        /\ IsBlank(Split(inputText)[Records[i].lineNumber - 1])

\* The store and the root list make up a forest of node objects.
IsForest(h, roots) ==
  /\ \A i \in 1..Len(roots) : roots[i] \in 1..Len(h)
  /\ \A s \in 1..Len(h) :
        /\ h[s].level \in Nat
        /\ h[s].isExpanded \in BOOLEAN
        /\ h[s].label # <<>>
        /\ \A i \in 1..Len(h[s].children) : h[s].children[i] \in 1..Len(h)
  /\ WellOwned(h, roots)

\* C22: parse is defined on every text; on an empty or whitespace-only text
\* it returns the empty forest, on every other text a forest.
C22_ParseTotal ==
  /\ phase = "text" =>
       LET r == ParseTextToMindMap(inputText, nodeIdCounter) IN
       /\ IsForest(r.heap, r.rootNodes)
       /\ IsBlank(inputText) => (r.rootNodes = <<>> /\ r.heap = <<>>)
  /\ phase = "parsed" =>
       /\ IsForest(heap, nodes)
       /\ IsBlank(inputText) => (nodes = <<>> /\ heap = <<>>)

\* A parse of a text that starts with a blank line and has a line with an
\* odd number of leading spaces and a child two levels below its parent.
C22_Witness ==
  /\ phase = "parsed"
  /\ IsBlank(Split(inputText)[1])
  /\ \E i \in 1..Len(Records) : Len(Indentation(PhysicalLine(i))) % 2 = 1
  /\ \E s \in Slots :
        heap[s].parent # 0 /\ heap[s].level >= heap[heap[s].parent].level + 2

\* C23: the forest has exactly one node per record and no other node, the
\* level of a node is the depth of its record, and a record more than one
\* level deeper than the record before it becomes a direct child of that
\* record's node.
C23_OneNodePerRecord ==
  phase = "parsed" =>
    /\ Len(heap) = Len(Records)
    /\ Cardinality(Range(Flat)) = Len(Records)
    /\ nodeIdCounter = Len(Records)
    /\ \A i \in 1..Len(Records) :
          /\ heap[i].level = Records[i].level
          /\ (i > 1 /\ Records[i].level > Records[i - 1].level + 1) =>
                /\ heap[i].parent = i - 1
                /\ Owners(i) = {i - 1}
                /\ Head(heap[i - 1].children) = i

\* A parse in which a record two levels deeper than the record before it
\* became that record's only child.
C23_Witness ==
  /\ phase = "parsed"
  /\ \E i \in 2..Len(Records) :
        /\ Records[i].level = Records[i - 1].level + 2
        /\ heap[i - 1].children = <<i>>
        /\ heap[i].level = heap[i - 1].level + 2

---------------------------------------------------------------------------
(* Serialisation of the session's forest (Spec) *)

\* No object of the serialised list, at any depth, has a key `parent`.
RECURSIVE NoParentKey(_)
NoParentKey(list) ==
  \A i \in 1..Len(list) :
     /\ "parent" \notin DOMAIN list[i]
     /\ NoParentKey(list[i].children)

\* Number of objects in the serialised list, at all depths.
RECURSIVE JsonSize(_)
JsonSize(list) ==
  IF list = <<>> THEN 0
  ELSE 1 + JsonSize(Head(list).children) + JsonSize(Tail(list))

\* C24: the session's JSON export, exportToJSON and the data embedded in the
\* generated page hold every node of the forest once and no parent
\* reference, at any depth.
C24_SerialisedWithoutParent ==
  /\ NoParentKey(Stringify(heap, nodes))
  /\ JsonSize(Stringify(heap, nodes)) = Len(heap)
  /\ NoParentKey(ExportToJSON(heap, nodes))
  /\ JsonSize(ExportToJSON(heap, nodes)) = Len(heap)
  /\ \A s \in Slots : NodesJson(heap)[s].parent = 0

\* A forest with a grandchild, each of its nodes with a parent reference,
\* after a toggle has replaced the grandchild's parent by a copy.
C24_Witness ==
  /\ phase = "session"
  /\ \E s \in Slots :
        /\ heap[s].parent # 0
        /\ heap[heap[s].parent].parent # 0
        /\ ~heap[heap[s].parent].orig

---------------------------------------------------------------------------
(* Repeated parses (Spec) *)

\* A parse result without its ids: roots, and label, level, children and
\* isExpanded of every node.
Structure(r) ==
  [roots |-> r.rootNodes,
   nodes |-> [s \in 1..Len(r.heap) |->
                [label |-> r.heap[s].label, level |-> r.heap[s].level,
                 children |-> r.heap[s].children,
                 isExpanded |-> r.heap[s].isExpanded,
                 parent |-> r.heap[s].parent]]]

\* C25: parse of the session's text, called again when the id counter
\* stands where the parses so far have left it, gives the forest the first
\* parse of the process gives for that text (shape, labels, levels, sibling
\* order, isExpanded), up to the ids; the ids are those that follow the
\* counter.
C25_ParseRepeatable ==
  LET first == ParseTextToMindMap(inputText, 0)
      again == ParseTextToMindMap(inputText, nodeIdCounter)
  IN /\ Structure(again) = Structure(first)
     /\ \A s \in 1..Len(again.heap) :
           again.heap[s].id = GenerateNodeId(nodeIdCounter + s - 1)
     /\ again.counter = nodeIdCounter + Len(first.heap)

\* A session whose forest, with a child in it, comes from a parse made after
\* two or more ids had been issued.
C25_Witness ==
  /\ phase = "session"
  /\ nodeIdCounter >= 2
  /\ \E s \in Slots :
        /\ heap[s].children # <<>>
        /\ heap[s].id \notin Issued(2)

---------------------------------------------------------------------------
(* The numbering marker (SpecParse) *)

\* The trimmed line starts with digits, a dot and a character that is not
\* white space.
DigitsDotGlued(t) ==
  LET k == RunLength(t, Digits) IN
  /\ k > 0
  /\ Len(t) >= k + 2
  /\ t[k + 1] = DOT
  /\ t[k + 2] \notin WhiteSpace

\* C26: a line whose content starts with digits, a dot and a character that
\* is not white space keeps those characters in its label.
C26_MarkerNeedsWhiteSpace ==
  phase = "parsed" =>
    \A i \in 1..Len(Records) :
       DigitsDotGlued(TrimmedLine(i)) => heap[i].label = TrimmedLine(i)

---------------------------------------------------------------------------
(* The parent back-reference in the session (Spec) *)

\* The parent reference of the node in slot s denotes the object that is in
\* slot p of the current forest: it was set to the object buildMindMapTree
\* created for p, and that object is still the one in the slot.
DenotesCurrent(s, p) == heap[s].parent = p /\ heap[p].orig

\* C27: after parse and after any toggles, the parent reference of every
\* node that is not a root denotes the node of the current forest whose
\* children list contains it, and a root has no parent.
C27_ParentDenotesOwner ==
  \A s \in Slots :
     IF s \in Range(nodes)
     THEN heap[s].parent = 0
     ELSE \E p \in Owners(s) : DenotesCurrent(s, p)

---------------------------------------------------------------------------
(* Highlighting in the 2D tree layout (Spec) *)

\* The elements the tree layout renders for the session's forest and query.
Rendered == MindMapVisualization(heap, nodes, SearchResults)

\* C28: in the tree layout a rendered node is shown highlighted exactly when
\* its own id is in the search-result set.
C28_HighlightOwnMatch ==
  \A i \in 1..Len(Rendered) :
     Rendered[i].isHighlighted <=> heap[Rendered[i].node].id \in SearchResults

---------------------------------------------------------------------------
(* The open-ancestor stack of the build (SpecParse) *)

\* The state of buildMindMapTree after the first k iterations of its loop
\* over the records of the text.
BuildAfter(k) == BuildMindMapTree(SubSeq(Records, 1, k), 0)

\* nodeStack runs from a root up to the node made last, every entry the
\* parent of the entry above it and of a strictly smaller level.
StackIsAncestorChain(st) ==
  LET stk == st.nodeStack IN
  /\ st.heap # <<>> =>
       /\ stk # <<>>
       /\ stk[1] = st.rootNodes[Len(st.rootNodes)]
       /\ stk[Len(stk)] = Len(st.heap)
  /\ \A j \in 1..(Len(stk) - 1) :
        /\ st.heap[stk[j]].level < st.heap[stk[j + 1]].level
        /\ st.heap[stk[j + 1]].parent = stk[j]
        /\ stk[j + 1] \in Range(st.heap[stk[j]].children)

\* C29: the levels of the roots do not increase in forest order, the first
\* root is the node of the first record, and after every iteration of the
\* build the stack is a chain of ancestors with strictly increasing levels.
C29_RootsAndStackOrdered ==
  phase = "parsed" =>
    /\ \A i, j \in 1..Len(nodes) :
          i < j => heap[nodes[i]].level >= heap[nodes[j]].level
    /\ Records # <<>> =>
          /\ nodes # <<>>
          /\ nodes[1] = 1
          /\ heap[nodes[1]].level = Records[1].level
    /\ \A k \in 0..Len(Records) : StackIsAncestorChain(BuildAfter(k))

\* A parse with a root of level 1 followed by a root of level 0, and a stack
\* three entries high at the end of the build.
C29_Witness ==
  /\ phase = "parsed"
  /\ Len(nodes) >= 2
  /\ heap[nodes[1]].level > heap[nodes[2]].level
  /\ Len(BuildAfter(Len(Records)).nodeStack) = 3

---------------------------------------------------------------------------
(* ExportControls.tsx: the export buttons *)

\* Most asynchronous exports the model lets run at the same time.
MaxExports == 2

VisualizationTypes == {"2d", "3d"}

\* ExportControls mounted over the forest of a parsed text.
InitExport ==
  /\ inputText \in SessionTexts
  /\ LET r == ParseEffect(inputText, 0) IN
       /\ nodes = r.rootNodes
       /\ heap = r.heap
       /\ nodeIdCounter = r.counter
  /\ searchQuery = <<>>
  /\ phase = "export"
  /\ \E v \in VisualizationTypes : exportControls = ExportControlsMounted(v)

\* A click on the PNG button: it is delivered when the button was rendered
\* enabled (disabled={isExporting || nodes.length === 0}), and the handler
\* goes on when the isExporting of its closure is false; it then queues
\* setIsExporting(true) and runs up to its await with the export started.
HandleExportPNG ==
  /\ phase = "export"
  /\ nodes # <<>>
  /\ ~exportControls.rendered
  /\ Len(exportControls.running) < MaxExports
  /\ exportControls' = [exportControls EXCEPT !.isExporting = TRUE,
                                              !.running = Append(@, "png")]
  /\ UNCHANGED <<inputText, nodes, heap, nodeIdCounter, searchQuery, phase>>

\* A click on the SVG button, which is also disabled in the 3D view.
HandleExportSVG ==
  /\ phase = "export"
  /\ nodes # <<>>
  /\ ~exportControls.rendered
  /\ exportControls.visualizationType # "3d"
  /\ Len(exportControls.running) < MaxExports
  /\ exportControls' = [exportControls EXCEPT !.isExporting = TRUE,
                                              !.running = Append(@, "svg")]
  /\ UNCHANGED <<inputText, nodes, heap, nodeIdCounter, searchQuery, phase>>

\* A click on the JSON button: setIsExporting(true), exportToJSON(nodes) and
\* setIsExporting(false) in one synchronous handler.
HandleExportJSON ==
  /\ phase = "export"
  /\ nodes # <<>>
  /\ ~exportControls.rendered
  /\ exportControls' = [exportControls EXCEPT !.isExporting = FALSE]
  /\ UNCHANGED <<inputText, nodes, heap, nodeIdCounter, searchQuery, phase>>

\* The awaited promise of the i-th running export settles, fulfilled or
\* rejected: the handler resumes in its finally block.
ExportSettles(i) ==
  /\ phase = "export"
  /\ i \in 1..Len(exportControls.running)
  /\ exportControls' =
       [exportControls EXCEPT
          !.isExporting = FALSE,
          !.running = SubSeq(@, 1, i - 1) \o SubSeq(@, i + 1, Len(@))]
  /\ UNCHANGED <<inputText, nodes, heap, nodeIdCounter, searchQuery, phase>>

\* React commits the queued state: the component renders again with the
\* current isExporting, for the buttons and for the handlers' closures.
Render ==
  /\ phase = "export"
  /\ exportControls.rendered # exportControls.isExporting
  /\ exportControls' = [exportControls EXCEPT !.rendered = exportControls.isExporting]
  /\ UNCHANGED <<inputText, nodes, heap, nodeIdCounter, searchQuery, phase>>

NextExport ==
  \/ HandleExportPNG
  \/ HandleExportSVG
  \/ HandleExportJSON
  \/ \E i \in 1..MaxExports : ExportSettles(i)
  \/ Render

SpecExport == InitExport /\ [][NextExport]_vars

\* C30: at most one export is in progress at any time, also when requests
\* arrive before the component has rendered again, and isExporting is false
\* once no export is in progress.
C30_AtMostOneExport ==
  phase = "export" =>
    /\ Len(exportControls.running) <= 1
    /\ exportControls.running = <<>> => ~exportControls.isExporting

====
